---- MODULE Spec2Model ----
(***************************************************************************)
(* Dynamic vessel tracking engine of barn-backend                          *)
(* (services/externalAPIs/dynamicShipTracker.js, class DynamicShipTracker).*)
(*                                                                         *)
(* Node.js runs every handler (an API call, a setInterval callback) to     *)
(* completion on one thread, so each method call is one atomic action.     *)
(*                                                                         *)
(* Numbers.  The source computes in IEEE doubles; the model computes in    *)
(* fixed point:                                                            *)
(*   - lengths and chart coordinates in units of 1e-6 km;                  *)
(*   - speeds in tenths of a knot, intervals in milliseconds;              *)
(*   - angles in whole degrees, trigonometry at 45-degree resolution with  *)
(*     sines and cosines in thousandths;                                   *)
(*   - fouling in whole percent, the fuel penalty in tenths of a percent,  *)
(*     the daily growth rate in tenths of a percent per day;               *)
(*   - timestamps in hours.                                                *)
(***************************************************************************)
EXTENDS Integers, Sequences, FiniteSets, TLC

VARIABLES
    trackingIntervals,  \* this.trackingIntervals : vesselId -> interval (timer) id
    activeTracking,     \* this.activeTracking    : vesselId -> tracking data
    vesselData,         \* this.vesselData        : vesselId -> vessel record
    timers,             \* the event loop's live setInterval timers
    now,                \* the wall clock read by Date.now() / new Date()
    atStop,             \* history: a vessel's simulation state when it was last stopped
    running             \* the timer callbacks that have begun and not yet returned

vars == <<trackingIntervals, activeTracking, vesselData, timers, now, atStop, running>>

\* null / undefined
Null == [null |-> TRUE]

\* ---------------------------------------------------------------- bounds

\* The clock advances in steps of ClockStepHours, MaxClockSteps times at most.
MaxClockSteps == 1

\* Ten days: long enough for fouling to grow by whole percents between reads.
ClockStepHours == 10 * 24

\* ------------------------------------------------------------ small helpers

Abs(x) == IF x < 0 THEN -x ELSE x

Min(a, b) == IF a < b THEN a ELSE b

\* x / 1000 rounded to the nearest integer, symmetric about 0.
RoundThousandths(x) == IF x < 0 THEN -((-x + 500) \div 1000) ELSE (x + 500) \div 1000

\* Math.sqrt on a fixed-point length: the integer part of the square root.
Sqrt(n) ==
    LET root[m \in Nat] == CHOOSE r \in 0..m : r * r <= m /\ (r + 1) * (r + 1) > m
    IN  root[n]

\* Map helpers: a JS Map is a function whose DOMAIN is its key set.
MapSet(m, k, val) == [x \in (DOMAIN m) \cup {k} |-> IF x = k THEN val ELSE m[x]]

MapDelete(m, k) == [x \in (DOMAIN m) \ {k} |-> m[x]]

EmptyMap == [x \in {} |-> Null]

\* ------------------------------------------------------------ configuration

\* this.updateInterval, milliseconds.
updateInterval == 30000

\* The vessel ids a caller may pass: the registry's and one the registry lacks.
UnknownVesselId == "VSL-99999"

\* A route table whose second route has a single waypoint.
seaRoutes_singleWaypoint ==
    [x \in {"VSL-00001", "VSL-00006"} |->
        IF x = "VSL-00001"
        THEN [name |-> "Brunei-Singapore Route",
              waypoints |-> <<
                [lat |-> 20, lon |-> 40, port |-> "Muara Port", country |-> "Brunei"],
                [lat |-> 0, lon |-> 20, port |-> "Transit Point", country |-> "International Waters"],
                [lat |-> 20, lon |-> 0, port |-> "Port of Singapore", country |-> "Singapore"] >>,
              speed |-> 125,
              type |-> "container"]
        ELSE [name |-> "Timor-Leste Coastal Route",
              waypoints |-> <<
                [lat |-> 0, lon |-> 10, port |-> "Port of Dili", country |-> "Timor-Leste"] >>,
              speed |-> 68,
              type |-> "coastal_vessel"]]

\* seaRoutes: the registry, reduced to two of its six routes on a small chart
\* (the source's legs are hundreds of km; a step is about 3e-5 km).  As in the
\* source every route has three waypoints and VSL-00006 ends where it starts.
\* VSL-00001 needs one step and a snap for each leg; the legs of VSL-00006
\* are shorter than its step.
seaRoutes ==
    [x \in {"VSL-00001", "VSL-00006"} |->
        IF x = "VSL-00001"
        THEN [name |-> "Brunei-Singapore Route",
              waypoints |-> <<
                [lat |-> 20, lon |-> 40, port |-> "Muara Port", country |-> "Brunei"],
                [lat |-> 0, lon |-> 20, port |-> "Transit Point", country |-> "International Waters"],
                [lat |-> 20, lon |-> 0, port |-> "Port of Singapore", country |-> "Singapore"] >>,
              speed |-> 125,
              type |-> "container"]
        ELSE [name |-> "Timor-Leste Coastal Route",
              waypoints |-> <<
                [lat |-> 0, lon |-> 10, port |-> "Port of Dili", country |-> "Timor-Leste"],
                [lat |-> 10, lon |-> 0, port |-> "Coastal Transit", country |-> "Timor-Leste"],
                [lat |-> 0, lon |-> 10, port |-> "Port of Dili", country |-> "Timor-Leste"] >>,
              speed |-> 68,
              type |-> "coastal_vessel"]]

\* this.vesselRoutes after initializeSEAVesselRoutes: written once, never changed.
vesselRoutes == seaRoutes

VesselIds == DOMAIN vesselRoutes

\* Insertion order of the Maps filled by initializeSEAVesselRoutes (forEach order).
VesselOrder == <<"VSL-00001", "VSL-00006">>

CallIds == VesselIds \cup {UnknownVesselId}

\* options.updateInterval as callers pass it: 0 stands for an absent (falsy) value.
IntervalOptions == {0, 60000}

\* JS arrays are 0-based, TLA+ sequences 1-based.
At(seq, i) == seq[i + 1]

\* --------------------------------------------------------------- geodesy

\* calculateDistance: haversine, in its small-distance planar form.
calculateDistance(lat1, lon1, lat2, lon2) ==
    LET dLat == lat2 - lat1
        dLon == lon2 - lon1
    IN  Sqrt(dLat * dLat + dLon * dLon)

\* Math.atan2(y, x) in degrees, in (-180, 180], to the nearest multiple of 45.
Atan2Degrees(y, x) ==
    LET ax == Abs(x)
        ay == Abs(y)
        a  == IF 1000 * ay < 414 * ax THEN 0
              ELSE IF 1000 * ax < 414 * ay THEN 90
              ELSE 45
    IN  IF x = 0 /\ y = 0 THEN 0
        ELSE IF x >= 0 /\ y >= 0 THEN a
        ELSE IF x < 0 /\ y >= 0 THEN 180 - a
        ELSE IF x >= 0 THEN -a
        ELSE a - 180

\* calculateBearing: toDegrees(atan2(y, x)); y is the east and x the north
\* component.  The result is returned as atan2 gives it.
calculateBearing(lat1, lon1, lat2, lon2) ==
    Atan2Degrees(lon2 - lon1, lat2 - lat1)

\* cos and sin of a multiple of 45 degrees, in thousandths.
CosThousandths(b) ==
    LET a == Abs(b)
    IN  IF a = 0 THEN 1000 ELSE IF a = 45 THEN 707 ELSE IF a = 90 THEN 0
        ELSE IF a = 135 THEN -707 ELSE -1000

SinThousandths(b) ==
    LET a == Abs(b)
        s == IF a = 0 \/ a = 180 THEN 0 ELSE IF a = 90 THEN 1000 ELSE 707
    IN  IF b < 0 THEN -s ELSE s

\* movePosition: forward projection by `distance` along `bearing`.
movePosition(lat, lon, bearing, distance) ==
    [lat |-> lat + RoundThousandths(distance * CosThousandths(bearing)),
     lon |-> lon + RoundThousandths(distance * SinThousandths(bearing))]

\* ------------------------------------------------------------ biofouling

\* Math.pow(p / 100, 1.2) in thousandths, for p in 0..100: p/100 times its
\* fifth root, the root taken to the nearest twentieth below.
PowSixFifths(p) ==
    LET s == CHOOSE r \in 0..20 :
                 100 * r^5 <= p * 20^5 /\ 100 * (r + 1)^5 > p * 20^5
    IN  (p * s) \div 2

\* generateInitialBiofoulingData(): the values Math.random() may give it, one
\* draw per vessel.  foulingPercent is in [10,70), the class is any of the four
\* whatever the percentage, daysSinceClean is in 0..119, lastCleanDate is up
\* to 120 days (2880 h) back and the penalty is in [0,25), each drawn on its own.
\* The draws checked: a low one for VSL-00001 and a high one for VSL-00006.
generateInitialBiofoulingData ==
    { [v \in {"VSL-00001", "VSL-00006"} |->
         IF v = "VSL-00001"
         THEN [foulingPercent |-> 10, foulingClass |-> "high", daysSinceClean |-> 0,
               lastCleanDate |-> 0, fuelConsumptionPenalty |-> 0]
         ELSE [foulingPercent |-> 69, foulingClass |-> "clean", daysSinceClean |-> 119,
               lastCleanDate |-> -2880, fuelConsumptionPenalty |-> 249]] }

\* dailyGrowthRate = 2.5 + Math.random() * 1.5: samples of [2.5, 4.0), in tenths.
DailyGrowthRates == {25, 39}

\* The update without the cap at 100.
updateBiofoulingData_noCap(vessel, nowT, dailyGrowthRate) ==
    LET biofouling == vessel.biofoulingData
        hoursSinceLastUpdate == nowT - vessel.lastUpdate
        growthIncrement == (dailyGrowthRate * hoursSinceLastUpdate) \div (24 * 10)
        percent == biofouling.foulingPercent + growthIncrement
    IN  [biofouling EXCEPT
            !.foulingPercent = percent,
            !.foulingClass = IF percent > 75 THEN "high"
                             ELSE IF percent > 40 THEN "medium"
                             ELSE IF percent > 15 THEN "low"
                             ELSE "clean",
            !.fuelConsumptionPenalty = (PowSixFifths(Min(100, percent)) * 25) \div 100]

\* An update that also recounts the days since the last cleaning.
updateBiofoulingData_recountsDays(vessel, nowT, dailyGrowthRate) ==
    LET biofouling == vessel.biofoulingData
        hoursSinceLastUpdate == nowT - vessel.lastUpdate
        growthIncrement == (dailyGrowthRate * hoursSinceLastUpdate) \div (24 * 10)
        percent == Min(100, biofouling.foulingPercent + growthIncrement)
    IN  [biofouling EXCEPT
            !.foulingPercent = percent,
            !.foulingClass = IF percent > 75 THEN "high"
                             ELSE IF percent > 40 THEN "medium"
                             ELSE IF percent > 15 THEN "low"
                             ELSE "clean",
            !.daysSinceClean = (nowT - biofouling.lastCleanDate) \div 24,
            !.fuelConsumptionPenalty = (PowSixFifths(percent) * 25) \div 100]

\* updateBiofoulingData(vessel): the biofouling object after the in-place update.
updateBiofoulingData(vessel, nowT, dailyGrowthRate) ==
    LET biofouling == vessel.biofoulingData
        hoursSinceLastUpdate == nowT - vessel.lastUpdate
        growthIncrement == (dailyGrowthRate * hoursSinceLastUpdate) \div (24 * 10)
        percent == Min(100, biofouling.foulingPercent + growthIncrement)
    IN  [biofouling EXCEPT
            !.foulingPercent = percent,
            !.foulingClass = IF percent > 75 THEN "high"
                             ELSE IF percent > 40 THEN "medium"
                             ELSE IF percent > 15 THEN "low"
                             ELSE "clean",
            !.fuelConsumptionPenalty = (PowSixFifths(percent) * 25) \div 100]

\* ------------------------------------------------------------ construction

\* A record built one waypoint into its route.
vesselRecord_atSecondWaypoint(vesselId, route, biofouling) ==
    [id |-> vesselId,
     name |-> route.name,
     type |-> route.type,
     status |-> "stopped",
     currentPosition |-> IF route.waypoints = <<>> THEN <<>>
                         ELSE IF Len(route.waypoints) = 1 THEN At(route.waypoints, 0)
                         ELSE At(route.waypoints, 1),
     targetWaypoint |-> IF Len(route.waypoints) >= 2 THEN 1 ELSE 0,
     speed |-> route.speed,
     course |-> 0,
     lastUpdate |-> 0,
     routeProgress |-> 0,
     biofoulingData |-> biofouling]

\* The object initializeSEAVesselRoutes sets in vesselData for one route, built
\* at time 0.  { ...route.waypoints[0] } of a route without waypoints is {}.
vesselRecord(vesselId, route, biofouling) ==
    [id |-> vesselId,
     name |-> route.name,
     type |-> route.type,
     status |-> "stopped",
     currentPosition |-> IF route.waypoints = <<>> THEN <<>> ELSE At(route.waypoints, 0),
     targetWaypoint |-> 0,
     speed |-> route.speed,
     course |-> 0,
     lastUpdate |-> 0,
     routeProgress |-> 0,
     biofoulingData |-> biofouling]

\* The vesselData entry of one vessel of the built-in table.
initialVessel(vesselId, biofouling) ==
    vesselRecord(vesselId, seaRoutes[vesselId], biofouling)

\* initializeSEAVesselRoutes as a function of the route table it iterates and
\* of the biofouling draws: every entry of the table is set in both Maps, and
\* no entry is examined first.
initializeSEAVesselRoutes(routes, biofouling) ==
    [vesselRoutes |-> routes,
     vesselData |-> [v \in DOMAIN routes |-> vesselRecord(v, routes[v], biofouling[v])]]

\* Route tables to construct a tracker from: seaRoutes, and seaRoutes with the
\* route of VSL-00006 cut down to its first two, its first or no waypoints.
RouteTables ==
    {[seaRoutes EXCEPT !["VSL-00006"].waypoints = SubSeq(@, 1, n)] : n \in 0..3}

\* ------------------------------------------------------------ the tick

\* speedInDegreesPerUpdate = (speed * 0.0002777778) * (this.updateInterval / 3600000),
\* in units of 1e-6: speed[knots] * interval[ms] / 12960, speed being in tenths.
speedInDegreesPerUpdate(vessel) == (vessel.speed * updateInterval) \div 129600

\* A next index that skips a waypoint.
nextWaypointIndexOf_skip(currentWaypointIndex, waypoints) ==
    (currentWaypointIndex + 2) % Len(waypoints)

\* nextWaypointIndex = (currentWaypointIndex + 1) % waypoints.length
nextWaypointIndexOf(currentWaypointIndex, waypoints) ==
    (currentWaypointIndex + 1) % Len(waypoints)

\* A waypoint counted as reached only when the vessel is exactly on it.
reachedWaypoint_exact(distance, step) == distance = 0

\* if (distance < speedInDegreesPerUpdate): the waypoint is reached.
reachedWaypoint(distance, step) == distance < step

\* A progress that counts the waypoint reached as passed.
routeProgressOf_passed(nextWaypointIndex, waypoints) ==
    ((nextWaypointIndex + 1) * 100) \div Len(waypoints)

\* routeProgress = (nextWaypointIndex / waypoints.length) * 100, in whole percent.
routeProgressOf(nextWaypointIndex, waypoints) ==
    (nextWaypointIndex * 100) \div Len(waypoints)

\* A move that sets the course on arrival at a waypoint as well.
moveVessel_courseOnArrival(vessel, waypoints) ==
    LET currentWaypointIndex == vessel.targetWaypoint
        nextWaypointIndex == nextWaypointIndexOf(currentWaypointIndex, waypoints)
        nextWaypoint == At(waypoints, nextWaypointIndex)
        distance == calculateDistance(vessel.currentPosition.lat, vessel.currentPosition.lon,
                                      nextWaypoint.lat, nextWaypoint.lon)
        step == speedInDegreesPerUpdate(vessel)
        bearing == calculateBearing(vessel.currentPosition.lat, vessel.currentPosition.lon,
                                    nextWaypoint.lat, nextWaypoint.lon)
        newPosition == movePosition(vessel.currentPosition.lat, vessel.currentPosition.lon,
                                    bearing, step)
    IN  IF reachedWaypoint(distance, step)
        THEN [vessel EXCEPT
                !.currentPosition = nextWaypoint,
                !.targetWaypoint = nextWaypointIndex,
                !.routeProgress = routeProgressOf(nextWaypointIndex, waypoints),
                !.course = bearing]
        ELSE [vessel EXCEPT
                !.currentPosition = [lat |-> newPosition.lat,
                                     lon |-> newPosition.lon,
                                     port |-> "In Transit",
                                     country |-> "International Waters"],
                !.course = bearing]

\* A move that interpolates the coordinates and keeps the port and country
\* the position had.
moveVessel_keepsPortName(vessel, waypoints) ==
    LET currentWaypointIndex == vessel.targetWaypoint
        nextWaypointIndex == nextWaypointIndexOf(currentWaypointIndex, waypoints)
        nextWaypoint == At(waypoints, nextWaypointIndex)
        distance == calculateDistance(vessel.currentPosition.lat, vessel.currentPosition.lon,
                                      nextWaypoint.lat, nextWaypoint.lon)
        step == speedInDegreesPerUpdate(vessel)
        bearing == calculateBearing(vessel.currentPosition.lat, vessel.currentPosition.lon,
                                    nextWaypoint.lat, nextWaypoint.lon)
        newPosition == movePosition(vessel.currentPosition.lat, vessel.currentPosition.lon,
                                    bearing, step)
    IN  IF reachedWaypoint(distance, step)
        THEN [vessel EXCEPT
                !.currentPosition = nextWaypoint,
                !.targetWaypoint = nextWaypointIndex,
                !.routeProgress = routeProgressOf(nextWaypointIndex, waypoints)]
        ELSE [vessel EXCEPT
                !.currentPosition = [lat |-> newPosition.lat,
                                     lon |-> newPosition.lon,
                                     port |-> vessel.currentPosition.port,
                                     country |-> vessel.currentPosition.country],
                !.course = bearing]

\* The first part of updateVesselPosition, up to the end of the if/else: the
\* vessel record after the waypoint was reached or the position interpolated.
moveVessel(vessel, waypoints) ==
    LET currentWaypointIndex == vessel.targetWaypoint
        nextWaypointIndex == nextWaypointIndexOf(currentWaypointIndex, waypoints)
        nextWaypoint == At(waypoints, nextWaypointIndex)
        distance == calculateDistance(vessel.currentPosition.lat, vessel.currentPosition.lon,
                                      nextWaypoint.lat, nextWaypoint.lon)
        step == speedInDegreesPerUpdate(vessel)
        bearing == calculateBearing(vessel.currentPosition.lat, vessel.currentPosition.lon,
                                    nextWaypoint.lat, nextWaypoint.lon)
        newPosition == movePosition(vessel.currentPosition.lat, vessel.currentPosition.lon,
                                    bearing, step)
    IN  IF reachedWaypoint(distance, step)
        THEN [vessel EXCEPT
                !.currentPosition = nextWaypoint,
                !.targetWaypoint = nextWaypointIndex,
                !.routeProgress = routeProgressOf(nextWaypointIndex, waypoints)]
        ELSE [vessel EXCEPT
                !.currentPosition = [lat |-> newPosition.lat,
                                     lon |-> newPosition.lon,
                                     port |-> "In Transit",
                                     country |-> "International Waters"],
                !.course = bearing]

\* if (!vessel || !route) return;
tickSkipped(data, vesselId) ==
    vesselId \notin DOMAIN data \/ vesselId \notin DOMAIN vesselRoutes

\* A callback that stamps lastUpdate on every vessel, not only its own.
updateVesselPosition_stampsAll(data, vesselId, nowT, dailyGrowthRate) ==
    IF tickSkipped(data, vesselId)
    THEN data
    ELSE
    LET moved == moveVessel(data[vesselId], vesselRoutes[vesselId].waypoints)
        rest[m \in {moved}] ==
            [m EXCEPT !.biofoulingData = updateBiofoulingData(m, nowT, dailyGrowthRate)]
        after == MapSet(data, vesselId, rest[moved])
    IN  [x \in DOMAIN after |-> [after[x] EXCEPT !.lastUpdate = nowT]]

\* A callback that files a record for a vessel it does not find.
updateVesselPosition_createsRecord(data, vesselId, nowT, dailyGrowthRate) ==
    IF tickSkipped(data, vesselId)
    THEN MapSet(data, vesselId, Null)
    ELSE
    LET moved == moveVessel(data[vesselId], vesselRoutes[vesselId].waypoints)
        rest[m \in {moved}] ==
            [[m EXCEPT !.biofoulingData = updateBiofoulingData(m, nowT, dailyGrowthRate)]
                EXCEPT !.lastUpdate = nowT]
    IN  MapSet(data, vesselId, rest[moved])

\* updateVesselPosition(vesselId): this.vesselData after the callback has run.
updateVesselPosition(data, vesselId, nowT, dailyGrowthRate) ==
    IF tickSkipped(data, vesselId)
    THEN data
    ELSE
    LET moved == moveVessel(data[vesselId], vesselRoutes[vesselId].waypoints)
        \* the statements after the if/else, on the record m they find
        rest[m \in {moved}] ==
            [[m EXCEPT !.biofoulingData = updateBiofoulingData(m, nowT, dailyGrowthRate)]
                EXCEPT !.lastUpdate = nowT]
    IN  MapSet(data, vesselId, rest[moved])

\* updateVesselPosition statement by statement.  `pc` names the statement a
\* callback will run next: "fouling" (this.updateBiofoulingData(vessel)) after
\* the if/else, then "stamp" (vessel.lastUpdate = ...), then it returns.
tickStatement(data, vesselId, pc, nowT, dailyGrowthRate) ==
    IF pc = "move"
    THEN MapSet(data, vesselId,
                moveVessel(data[vesselId], vesselRoutes[vesselId].waypoints))
    ELSE IF pc = "fouling"
    THEN [data EXCEPT ![vesselId].biofoulingData =
              updateBiofoulingData(data[vesselId], nowT, dailyGrowthRate)]
    ELSE [data EXCEPT ![vesselId].lastUpdate = nowT]

nextStatement(pc) ==
    IF pc = "move" THEN "fouling" ELSE IF pc = "fouling" THEN "stamp" ELSE "return"

\* A callback that gives up the thread before statement `pc` while others run.
suspensionPoints_awaitAfterMove == {"fouling"}

\* The statements before which updateVesselPosition gives up the thread: it is
\* a plain function without await, so there is none.
suspensionPoints == {}

\* ------------------------------------------------------------ the tracker

\* The instance fields the methods below read and write.
This == [trackingIntervals |-> trackingIntervals,
         activeTracking |-> activeTracking,
         vesselData |-> vesselData,
         timers |-> timers]

\* setInterval returns a fresh Timeout object: an id no live timer and no
\* map entry carries (dead, unreferenced ids are indistinguishable from new ones).
setInterval(this) ==
    LET used == {t.id : t \in this.timers}
                \cup {this.trackingIntervals[k] : k \in DOMAIN this.trackingIntervals}
    IN  CHOOSE i \in 0..Cardinality(used) :
            i \notin used /\ \A j \in 0..(i - 1) : j \in used

\* clearInterval(id): the timer leaves the event loop at once.
clearInterval(liveTimers, id) == {t \in liveTimers : t.id # id}

\* A status that exists only for a vessel that is being tracked.
getVesselStatus_onlyTracked(this, vesselId) ==
    IF vesselId \notin DOMAIN this.vesselData \/ vesselId \notin DOMAIN this.activeTracking
    THEN Null
    ELSE
    LET vessel == this.vesselData[vesselId]
    IN  [id |-> vesselId,
         name |-> vessel.name,
         type |-> vessel.type,
         status |-> vessel.status,
         position |-> vessel.currentPosition,
         speed |-> vessel.speed,
         course |-> vessel.course,
         routeProgress |-> vessel.routeProgress,
         biofouling |-> [ref |-> vesselId],
         route |-> IF vesselId \in DOMAIN vesselRoutes
                   THEN [name |-> vesselRoutes[vesselId].name,
                         waypointCount |-> Len(vesselRoutes[vesselId].waypoints),
                         currentWaypoint |-> vessel.targetWaypoint]
                   ELSE Null,
         tracking |-> IF vesselId \in DOMAIN this.activeTracking
                      THEN [active |-> TRUE,
                            startTime |-> this.activeTracking[vesselId].startTime,
                            updateInterval |-> this.activeTracking[vesselId].updateInterval]
                      ELSE [active |-> FALSE],
         lastUpdate |-> vessel.lastUpdate]

\* getVesselStatus(vesselId).  `position` is the object currentPosition points
\* to, which the tick replaces and never writes into, so it is held by value;
\* `biofouling` is the vessel's one biofoulingData object, which the tick
\* writes into, so it is held as a reference to it.
getVesselStatus(this, vesselId) ==
    IF vesselId \notin DOMAIN this.vesselData THEN Null
    ELSE
    LET vessel == this.vesselData[vesselId]
    IN  [id |-> vesselId,
         name |-> vessel.name,
         type |-> vessel.type,
         status |-> vessel.status,
         position |-> vessel.currentPosition,
         speed |-> vessel.speed,
         course |-> vessel.course,
         routeProgress |-> vessel.routeProgress,
         biofouling |-> [ref |-> vesselId],
         route |-> IF vesselId \in DOMAIN vesselRoutes
                   THEN [name |-> vesselRoutes[vesselId].name,
                         waypointCount |-> Len(vesselRoutes[vesselId].waypoints),
                         currentWaypoint |-> vessel.targetWaypoint]
                   ELSE Null,
         tracking |-> IF vesselId \in DOMAIN this.activeTracking
                      THEN [active |-> TRUE,
                            startTime |-> this.activeTracking[vesselId].startTime,
                            updateInterval |-> this.activeTracking[vesselId].updateInterval]
                      ELSE [active |-> FALSE],
         lastUpdate |-> vessel.lastUpdate]

\* A start that ignores the override.
intervalOf_default(options) == updateInterval

\* const updateInterval = options.updateInterval || this.updateInterval
intervalOf(options) ==
    IF options.updateInterval # 0 THEN options.updateInterval ELSE updateInterval

\* startTracking past its two checks: the timer, the two map entries, the
\* status and the value returned.
beginTracking(this, vesselId, options, nowT) ==
    LET interval == intervalOf(options)
        intervalId == setInterval(this)
        after == [trackingIntervals |-> MapSet(this.trackingIntervals, vesselId, intervalId),
                  activeTracking |-> MapSet(this.activeTracking, vesselId,
                                            [startTime |-> nowT,
                                             updateInterval |-> interval,
                                             options |-> options]),
                  vesselData |-> IF vesselId \in DOMAIN this.vesselData
                                 THEN [this.vesselData EXCEPT ![vesselId].status = "underway"]
                                 ELSE this.vesselData,
                  timers |-> this.timers \cup
                             {[id |-> intervalId, vesselId |-> vesselId, period |-> interval]}]
    IN  [this |-> after,
         result |-> [success |-> TRUE,
                     message |-> <<"Dynamic tracking started for", vesselId>>,
                     vessel |-> getVesselStatus(after, vesselId)]]

\* startTracking without its first check: a start of a tracked vessel goes on
\* to create a timer and overwrite the map entries.
startTracking_noGuard(this, vesselId, options, nowT) ==
    IF vesselId \notin DOMAIN this.vesselData
    THEN [this |-> this,
          result |-> [success |-> FALSE, message |-> "Vessel not found"]]
    ELSE beginTracking(this, vesselId, options, nowT)

\* startTracking that restarts a tracked vessel: the old timer is cleared and a
\* new one created with the new options.
startTracking_restart(this, vesselId, options, nowT) ==
    IF vesselId \notin DOMAIN this.vesselData
    THEN [this |-> this,
          result |-> [success |-> FALSE, message |-> "Vessel not found"]]
    ELSE IF vesselId \in DOMAIN this.trackingIntervals
    THEN [this |-> beginTracking(
                     [this EXCEPT !.timers =
                          clearInterval(this.timers, this.trackingIntervals[vesselId])],
                     vesselId, options, nowT).this,
          result |-> [success |-> FALSE, message |-> "Tracking already active"]]
    ELSE beginTracking(this, vesselId, options, nowT)

\* startTracking that puts the vessel back at the start of its route.
startTracking_reseed(this, vesselId, options, nowT) ==
    IF vesselId \in DOMAIN this.trackingIntervals
    THEN [this |-> this,
          result |-> [success |-> FALSE, message |-> "Tracking already active"]]
    ELSE IF vesselId \notin DOMAIN this.vesselData
    THEN [this |-> this,
          result |-> [success |-> FALSE, message |-> "Vessel not found"]]
    ELSE beginTracking(
           [this EXCEPT !.vesselData[vesselId] =
                initialVessel(vesselId, this.vesselData[vesselId].biofoulingData)],
           vesselId, options, nowT)

\* A start that stamps the record with the time of the start.
startTracking_stampsStart(this, vesselId, options, nowT) ==
    IF vesselId \in DOMAIN this.trackingIntervals
    THEN [this |-> this,
          result |-> [success |-> FALSE, message |-> "Tracking already active"]]
    ELSE IF vesselId \notin DOMAIN this.vesselData
    THEN [this |-> this,
          result |-> [success |-> FALSE, message |-> "Vessel not found"]]
    ELSE beginTracking(
           [this EXCEPT !.vesselData[vesselId].lastUpdate = nowT],
           vesselId, options, nowT)

\* startTracking without the lookup in vesselData.
startTracking_noLookup(this, vesselId, options, nowT) ==
    IF vesselId \in DOMAIN this.trackingIntervals
    THEN [this |-> this,
          result |-> [success |-> FALSE, message |-> "Tracking already active"]]
    ELSE beginTracking(this, vesselId, options, nowT)

\* startTracking(vesselId, options): the fields afterwards and the value returned.
startTracking(this, vesselId, options, nowT) ==
    IF vesselId \in DOMAIN this.trackingIntervals
    THEN [this |-> this,
          result |-> [success |-> FALSE, message |-> "Tracking already active"]]
    ELSE IF vesselId \notin DOMAIN this.vesselData
    THEN [this |-> this,
          result |-> [success |-> FALSE, message |-> "Vessel not found"]]
    ELSE beginTracking(this, vesselId, options, nowT)

\* A stop whose result carries the status taken before the entries were deleted.
endTracking_snapshotBefore(this, vesselId) ==
    LET after == [trackingIntervals |-> MapDelete(this.trackingIntervals, vesselId),
                  activeTracking |-> MapDelete(this.activeTracking, vesselId),
                  vesselData |-> IF vesselId \in DOMAIN this.vesselData
                                 THEN [this.vesselData EXCEPT ![vesselId].status = "stopped"]
                                 ELSE this.vesselData,
                  timers |-> IF vesselId \in DOMAIN this.trackingIntervals
                             THEN clearInterval(this.timers, this.trackingIntervals[vesselId])
                             ELSE this.timers]
    IN  [this |-> after,
         result |-> [success |-> TRUE,
                     message |-> <<"Dynamic tracking stopped for", vesselId>>,
                     vessel |-> getVesselStatus(this, vesselId)]]

\* stopTracking past its check.  clearInterval(undefined) does nothing.
endTracking(this, vesselId) ==
    LET after == [trackingIntervals |-> MapDelete(this.trackingIntervals, vesselId),
                  activeTracking |-> MapDelete(this.activeTracking, vesselId),
                  vesselData |-> IF vesselId \in DOMAIN this.vesselData
                                 THEN [this.vesselData EXCEPT ![vesselId].status = "stopped"]
                                 ELSE this.vesselData,
                  timers |-> IF vesselId \in DOMAIN this.trackingIntervals
                             THEN clearInterval(this.timers, this.trackingIntervals[vesselId])
                             ELSE this.timers]
    IN  [this |-> after,
         result |-> [success |-> TRUE,
                     message |-> <<"Dynamic tracking stopped for", vesselId>>,
                     vessel |-> getVesselStatus(after, vesselId)]]

\* stopTracking that deletes the map entries and leaves the timer running.
stopTracking_noClear(this, vesselId) ==
    IF vesselId \notin DOMAIN this.trackingIntervals
    THEN [this |-> this,
          result |-> [success |-> FALSE, message |-> "No active tracking found"]]
    ELSE LET r == endTracking(this, vesselId)
         IN  [r EXCEPT !.this.timers = this.timers]

\* stopTracking that forgets to delete the activeTracking entry.
stopTracking_keepsMetadata(this, vesselId) ==
    IF vesselId \notin DOMAIN this.trackingIntervals
    THEN [this |-> this,
          result |-> [success |-> FALSE, message |-> "No active tracking found"]]
    ELSE LET r == endTracking(this, vesselId)
         IN  [r EXCEPT !.this.activeTracking = this.activeTracking]

\* stopTracking without its check.
stopTracking_noGuard(this, vesselId) == endTracking(this, vesselId)

\* stopTracking(vesselId): the fields afterwards and the value returned.
stopTracking(this, vesselId) ==
    IF vesselId \notin DOMAIN this.trackingIntervals
    THEN [this |-> this,
          result |-> [success |-> FALSE, message |-> "No active tracking found"]]
    ELSE endTracking(this, vesselId)

\* Map.prototype.forEach visits the keys in insertion order; both loops below
\* key their results by vesselId and each callback touches its own key only.
KeysInOrder(m) == SelectSeq(VesselOrder, LAMBDA k : k \in DOMAIN m)

RECURSIVE startAllLoop(_, _, _, _, _)
startAllLoop(this, results, keys, options, nowT) ==
    IF keys = <<>> THEN [this |-> this, result |-> results]
    ELSE LET r == startTracking(this, Head(keys), options, nowT)
         IN  startAllLoop(r.this, MapSet(results, Head(keys), r.result),
                          Tail(keys), options, nowT)

\* A loop that gives up at the first vessel whose start fails.
RECURSIVE startAllLoop_untilFailure(_, _, _, _, _)
startAllLoop_untilFailure(this, results, keys, options, nowT) ==
    IF keys = <<>> THEN [this |-> this, result |-> results]
    ELSE LET r == startTracking(this, Head(keys), options, nowT)
         IN  IF r.result.success
             THEN startAllLoop_untilFailure(r.this, MapSet(results, Head(keys), r.result),
                                            Tail(keys), options, nowT)
             ELSE [this |-> r.this, result |-> MapSet(results, Head(keys), r.result)]

startAllTracking_untilFailure(this, options, nowT) ==
    startAllLoop_untilFailure(this, EmptyMap, KeysInOrder(this.vesselData), options, nowT)

\* startAllTracking(options): this.vesselData.forEach(startTracking).
startAllTracking(this, options, nowT) ==
    startAllLoop(this, EmptyMap, KeysInOrder(this.vesselData), options, nowT)

\* forEach skips an entry deleted before it is reached.
RECURSIVE stopAllLoop(_, _, _)
stopAllLoop(this, results, keys) ==
    IF keys = <<>> THEN [this |-> this, result |-> results]
    ELSE IF Head(keys) \notin DOMAIN this.trackingIntervals
    THEN stopAllLoop(this, results, Tail(keys))
    ELSE LET r == stopTracking(this, Head(keys))
         IN  stopAllLoop(r.this, MapSet(results, Head(keys), r.result), Tail(keys))

\* A loop that the first deletion ends.
stopAllTracking_firstOnly(this) ==
    LET keys == KeysInOrder(this.trackingIntervals)
    IN  stopAllLoop(this, EmptyMap, IF keys = <<>> THEN keys ELSE <<Head(keys)>>)

\* stopAllTracking(): this.trackingIntervals.forEach(stopTracking).
stopAllTracking(this) ==
    stopAllLoop(this, EmptyMap, KeysInOrder(this.trackingIntervals))

\* getAllVesselStatuses(): one status per vesselData key.
getAllVesselStatuses(this) ==
    [k \in DOMAIN this.vesselData |-> getVesselStatus(this, k)]
\* Statistics that count the vessel records as active.
getTrackingStats_countsRecords(this) ==
    [totalVessels |-> Cardinality(DOMAIN this.vesselData),
     activeTracking |-> Cardinality(DOMAIN this.vesselData),
     updateInterval |-> updateInterval,
     availableVessels |-> KeysInOrder(this.vesselData),
     routeCoverage |-> [i \in 1..Len(VesselOrder) |->
                          [name |-> vesselRoutes[VesselOrder[i]].name,
                           waypoints |-> Len(vesselRoutes[VesselOrder[i]].waypoints)]]]

\* getTrackingStats()
getTrackingStats(this) ==
    [totalVessels |-> Cardinality(DOMAIN this.vesselData),
     activeTracking |-> Cardinality(DOMAIN this.activeTracking),
     updateInterval |-> updateInterval,
     availableVessels |-> KeysInOrder(this.vesselData),
     routeCoverage |-> [i \in 1..Len(VesselOrder) |->
                          [name |-> vesselRoutes[VesselOrder[i]].name,
                           waypoints |-> Len(vesselRoutes[VesselOrder[i]].waypoints)]]]

\* The three reads as calls on the tracker: the tracker they leave behind and
\* what they return.  None of them assigns to a field of `this` or calls set
\* or delete on one of its Maps, so `this` is left as it was.

\* A status read that files an entry for a vessel it does not find.
getVesselStatusCall_createsRecord(this, vesselId) ==
    [this |-> IF vesselId \in DOMAIN this.vesselData THEN this
              ELSE [this EXCEPT !.vesselData = MapSet(@, vesselId, Null)],
     result |-> getVesselStatus(this, vesselId)]

getVesselStatusCall(this, vesselId) ==
    [this |-> this, result |-> getVesselStatus(this, vesselId)]

getAllVesselStatusesCall(this) ==
    [this |-> this, result |-> getAllVesselStatuses(this)]

getTrackingStatsCall(this) ==
    [this |-> this, result |-> getTrackingStats(this)]

\* ------------------------------------------------------------ state machine

\* The part of a vessel record that the simulation moves.
SimState(vessel) ==
    [position |-> vessel.currentPosition,
     targetWaypoint |-> vessel.targetWaypoint,
     routeProgress |-> vessel.routeProgress,
     course |-> vessel.course,
     biofouling |-> vessel.biofoulingData]

\* The constructor: empty maps, no timer, vesselData filled by
\* initializeSEAVesselRoutes with one biofouling draw per vessel.
Init ==
    /\ trackingIntervals = EmptyMap
    /\ activeTracking = EmptyMap
    /\ \E draw \in generateInitialBiofoulingData :
           vesselData = initializeSEAVesselRoutes(seaRoutes, draw).vesselData
    /\ timers = {}
    /\ now = 0
    /\ atStop = [v \in VesselIds |-> Null]
    /\ running = <<>>

Commit(this) ==
    /\ trackingIntervals' = this.trackingIntervals
    /\ activeTracking' = this.activeTracking
    /\ vesselData' = this.vesselData
    /\ timers' = this.timers

\* POST /tracking/vessel/:vesselId/start
StartTracking(vesselId, option) ==
    LET r == startTracking(This, vesselId, [updateInterval |-> option], now)
    IN  /\ Commit(r.this)
        /\ UNCHANGED <<now, atStop, running>>

\* Records the simulation state a vessel had when a stop of it succeeded.
NoteStopped(results) ==
    [v \in VesselIds |->
        IF v \in DOMAIN results /\ results[v].success /\ v \in DOMAIN vesselData
        THEN [sim |-> SimState(vesselData[v])]
        ELSE atStop[v]]

\* POST /tracking/vessel/:vesselId/stop
StopTracking(vesselId) ==
    LET r == stopTracking(This, vesselId)
    IN  /\ Commit(r.this)
        /\ atStop' = NoteStopped(MapSet(EmptyMap, vesselId, r.result))
        /\ UNCHANGED <<now, running>>

\* POST /tracking/fleet/start
StartAllTracking(option) ==
    LET r == startAllTracking(This, [updateInterval |-> option], now)
    IN  /\ Commit(r.this)
        /\ UNCHANGED <<now, atStop, running>>

\* POST /tracking/fleet/stop
StopAllTracking ==
    LET r == stopAllTracking(This)
    IN  /\ Commit(r.this)
        /\ atStop' = NoteStopped(r.result)
        /\ UNCHANGED <<now, running>>

\* A live timer fires: its callback runs updateVesselPosition(vesselId).
TimerFires(t, dailyGrowthRate) ==
    /\ t \in timers
    /\ vesselData' = updateVesselPosition(vesselData, t.vesselId, now, dailyGrowthRate)
    /\ atStop' = [atStop EXCEPT ![t.vesselId] =
                     IF t.vesselId \in DOMAIN trackingIntervals THEN Null ELSE @]
    /\ UNCHANGED <<trackingIntervals, activeTracking, timers, now, running>>

\* GET /tracking/vessel/:vesselId/status
GetVesselStatus(vesselId) ==
    /\ Commit(getVesselStatusCall(This, vesselId).this)
    /\ UNCHANGED <<now, atStop, running>>

\* GET /tracking/vessels
GetAllVesselStatuses ==
    /\ Commit(getAllVesselStatusesCall(This).this)
    /\ UNCHANGED <<now, atStop, running>>

\* GET /tracking/stats
GetTrackingStats ==
    /\ Commit(getTrackingStatsCall(This).this)
    /\ UNCHANGED <<now, atStop, running>>

\* Time passes between two handlers.
AdvanceClock ==
    /\ now < MaxClockSteps * ClockStepHours
    /\ now' = now + ClockStepHours
    /\ UNCHANGED <<trackingIntervals, activeTracking, vesselData, timers, atStop, running>>

Next ==
    \/ \E v \in CallIds, o \in IntervalOptions : StartTracking(v, o)
    \/ \E v \in CallIds : StopTracking(v)
    \/ \E o \in IntervalOptions : StartAllTracking(o)
    \/ StopAllTracking
    \/ \E t \in timers, g \in DailyGrowthRates : TimerFires(t, g)
    \/ \E v \in CallIds : GetVesselStatus(v)
    \/ GetAllVesselStatuses
    \/ GetTrackingStats
    \/ AdvanceClock

Spec == Init /\ [][Next]_vars

\* Some timer of vessel v fires.
Tick(v) ==
    \E t \in timers, g \in DailyGrowthRates : t.vesselId = v /\ TimerFires(t, g)

\* The steps that start, stop and move vessels.  Waypoints are reached by
\* ticks whatever the clock reads, so the clock stands still here.
NextFair ==
    \/ \E v \in CallIds, o \in IntervalOptions : StartTracking(v, o)
    \/ \E v \in CallIds : StopTracking(v)
    \/ \E v \in VesselIds : Tick(v)

\* setInterval keeps firing a live timer: a vessel whose timer stays live is
\* not left without a tick for ever.
SpecFair == Init /\ [][NextFair]_vars /\ \A v \in VesselIds : WF_vars(Tick(v))

\* ------------------------------------------------ the callback, statement by statement

\* Node runs one handler at a time: a new handler starts only when every
\* callback that has begun has returned or is waiting at a suspension point.
EventLoopFree ==
    \A i \in 1..Len(running) : running[i].pc \in suspensionPoints

RemoveAt(seq, i) == SubSeq(seq, 1, i - 1) \o SubSeq(seq, i + 1, Len(seq))

\* The timer t fires: updateVesselPosition begins and runs up to the end of
\* its if/else.  `before` is history: the record as the callback found it.
TickBegins(t) ==
    /\ EventLoopFree
    /\ t \in timers
    /\ IF tickSkipped(vesselData, t.vesselId)
       THEN UNCHANGED <<vesselData, running>>
       ELSE /\ vesselData' = tickStatement(vesselData, t.vesselId, "move", now, 0)
            /\ running' = Append(running, [vesselId |-> t.vesselId,
                                           pc |-> nextStatement("move"),
                                           before |-> vesselData[t.vesselId]])
    /\ atStop' = [atStop EXCEPT ![t.vesselId] =
                     IF t.vesselId \in DOMAIN trackingIntervals THEN Null ELSE @]
    /\ UNCHANGED <<trackingIntervals, activeTracking, timers, now>>

\* The callback running[i] runs its next statement; it has the thread while
\* every other callback waits.
TickContinues(i, dailyGrowthRate) ==
    /\ i \in 1..Len(running)
    /\ \A j \in 1..Len(running) : j = i \/ running[j].pc \in suspensionPoints
    /\ LET r == running[i]
       IN  /\ vesselData' = tickStatement(vesselData, r.vesselId, r.pc, now, dailyGrowthRate)
           /\ running' = IF nextStatement(r.pc) = "return"
                         THEN RemoveAt(running, i)
                         ELSE [running EXCEPT ![i].pc = nextStatement(r.pc)]
    /\ UNCHANGED <<trackingIntervals, activeTracking, timers, now, atStop>>

NextSteps ==
    \/ EventLoopFree /\ \E v \in CallIds, o \in IntervalOptions : StartTracking(v, o)
    \/ EventLoopFree /\ \E v \in CallIds : StopTracking(v)
    \/ EventLoopFree /\ \E o \in IntervalOptions : StartAllTracking(o)
    \/ EventLoopFree /\ StopAllTracking
    \/ \E t \in timers : TickBegins(t)
    \/ \E i \in 1..Len(running), g \in DailyGrowthRates : TickContinues(i, g)
    \/ EventLoopFree /\ \E v \in CallIds : GetVesselStatus(v)
    \/ EventLoopFree /\ GetAllVesselStatuses
    \/ EventLoopFree /\ GetTrackingStats
    \/ EventLoopFree /\ AdvanceClock

\* The tracker with updateVesselPosition run one statement at a time.
SpecSteps == Init /\ [][NextSteps]_vars

\* ------------------------------------------------ a statement of the callback throws

\* A catch block that gives the vessel up.
catchTickError_stopsTracking(this, vesselId) == endTracking(this, vesselId).this

\* catch (error) { console.error(...) }: the tracker after the catch block of
\* updateVesselPosition has run.  It only logs.
catchTickError(this, vesselId) == this

\* The statement the callback running[i] is about to run throws before it
\* writes: control passes to the catch block and the callback returns.  What
\* the callback wrote before stays written.
TickThrows(i) ==
    /\ i \in 1..Len(running)
    /\ \A j \in 1..Len(running) : j = i \/ running[j].pc \in suspensionPoints
    /\ Commit(catchTickError(This, running[i].vesselId))
    /\ running' = RemoveAt(running, i)
    /\ UNCHANGED <<now, atStop>>

\* Starts, stops and callbacks run statement by statement, each of which may
\* throw.  What a fault leaves behind does not depend on the clock, which
\* stands still here.
NextFaults ==
    \/ EventLoopFree /\ \E v \in CallIds, o \in IntervalOptions : StartTracking(v, o)
    \/ EventLoopFree /\ \E v \in CallIds : StopTracking(v)
    \/ \E t \in timers : TickBegins(t)
    \/ \E i \in 1..Len(running), g \in DailyGrowthRates : TickContinues(i, g)
    \/ \E i \in 1..Len(running) : TickThrows(i)

\* The statement-level tracker in which any statement of the try block after
\* the if/else may throw.
SpecFaults == Init /\ [][NextFaults]_vars

\* ------------------------------------------------------------ the controller

\* res.status(code).json(body) for a result of the tracker: 200 when it
\* succeeded, 400 otherwise.  The body's timestamp is left out; `vessel` is
\* Null where the result has none.
resultResponse(result) ==
    [status |-> IF result.success THEN 200 ELSE 400,
     body |-> [success |-> result.success,
               message |-> result.message,
               vessel |-> IF "vessel" \in DOMAIN result THEN result.vessel ELSE Null]]

\* POST /tracking/vessel/:vesselId/start.  A route parameter is never empty,
\* so the 'Vessel ID is required' branch is not taken.
startDynamicTracking(this, vesselId, options, nowT) ==
    LET r == startTracking(this, vesselId, options, nowT)
    IN  [this |-> r.this, response |-> resultResponse(r.result)]

\* POST /tracking/vessel/:vesselId/stop
stopDynamicTracking(this, vesselId) ==
    LET r == stopTracking(this, vesselId)
    IN  [this |-> r.this, response |-> resultResponse(r.result)]

\* GET /tracking/vessel/:vesselId/status
getVesselStatusHandler(this, vesselId) ==
    LET vessel == getVesselStatus(this, vesselId)
    IN  IF vessel = Null
        THEN [status |-> 404,
              body |-> [success |-> FALSE, message |-> "Vessel not found"]]
        ELSE [status |-> 200, body |-> [success |-> TRUE, data |-> vessel]]

\* ------------------------------------------------------------ what a caller sees

\* What the holder of a status object reads in it while the tracker's data is
\* `data`: its own fields, and through `biofouling` the vessel's biofoulingData.
ReadStatus(status, data) ==
    IF status = Null THEN Null
    ELSE [status EXCEPT !.biofouling = data[status.biofouling.ref].biofoulingData]

LiveTimersOf(liveTimers, vesselId) == {t \in liveTimers : t.vesselId = vesselId}

AlreadyTracking == [success |-> FALSE, message |-> "Tracking already active"]

UnknownVessel == [success |-> FALSE, message |-> "Vessel not found"]

NotTracking == [success |-> FALSE, message |-> "No active tracking found"]

Options == {[updateInterval |-> o] : o \in IntervalOptions}

\* Off the first waypoint of its route: the vessel has ticked.
HasMoved(vesselId) ==
    \/ vesselData[vesselId].targetWaypoint # 0
    \/ vesselData[vesselId].currentPosition.port = "In Transit"

\* ------------------------------------------------------------ claims

\* C1: in every reachable state each vessel has at most one live periodic
\* timer, and a vessel has one exactly when it has a handle in trackingIntervals.
C1_AtMostOneTimer ==
    \A v \in CallIds :
        /\ Cardinality(LiveTimersOf(timers, v)) <= 1
        /\ (v \in DOMAIN trackingIntervals) <=> (LiveTimersOf(timers, v) # {})

\* C1 witness: a vessel that was started, stopped and started again, and that
\* a further start would find tracked, has exactly one live timer.
C1_Witness ==
    \E v \in VesselIds :
        /\ atStop[v] # Null
        /\ v \in DOMAIN trackingIntervals
        /\ Cardinality(LiveTimersOf(timers, v)) = 1
        /\ \E o \in Options : startTracking(This, v, o, now).result = AlreadyTracking

\* C2: a start of a vessel that has a handle returns "Tracking already active"
\* and leaves the handle, the timers and every vessel record as they were.
C2_StartOnTrackedIsNoOp ==
    \A v \in DOMAIN trackingIntervals, o \in Options :
        LET r == startTracking(This, v, o, now)
        IN  /\ r.result = AlreadyTracking
            /\ r.this = This

\* C2 witness: a tracked vessel that has moved, started with the default
\* interval, is started again with another interval.
C2_Witness ==
    \E v \in DOMAIN trackingIntervals :
        /\ HasMoved(v)
        /\ activeTracking[v].updateInterval = updateInterval
        /\ startTracking(This, v, [updateInterval |-> 60000], now).result = AlreadyTracking

\* C3: no tick of a vessel runs in a state where the vessel has no handle:
\* every step that is a timer callback is taken for a vessel in trackingIntervals.
C3_NoTickWithoutHandle ==
    [][\A t \in timers :
          \/ t.vesselId \in DOMAIN trackingIntervals
          \/ \A g \in DailyGrowthRates : ~TimerFires(t, g)]_vars

\* C3 witness: a vessel that ticked and was stopped has no live timer while
\* another vessel's timer is live.
C3_Witness ==
    \E v \in VesselIds :
        /\ atStop[v] # Null
        /\ v \notin DOMAIN trackingIntervals
        /\ HasMoved(v)
        /\ LiveTimersOf(timers, v) = {}
        /\ timers # {}

\* C4: every live timer is the one the latest successful start of its vessel
\* registered, so no timer of an earlier start can tick.
C4_OnlyRegisteredTimerLive ==
    \A t \in timers :
        /\ t.vesselId \in DOMAIN trackingIntervals
        /\ trackingIntervals[t.vesselId] = t.id
        /\ t.period = activeTracking[t.vesselId].updateInterval

\* C4 witness: a vessel stopped and started again at a later time with another
\* interval has one live timer, of the new period.
C4_Witness ==
    \E v \in VesselIds :
        /\ atStop[v] # Null
        /\ v \in DOMAIN trackingIntervals
        /\ activeTracking[v].startTime > 0
        /\ LiveTimersOf(timers, v) =
              {[id |-> trackingIntervals[v], vesselId |-> v, period |-> 60000]}

\* C5: from a successful stop of a vessel until its first tick after being
\* started again, its position, target waypoint, route progress, course and
\* biofouling are what they were when it was stopped.
C5_ResumeContinuity ==
    \A v \in VesselIds :
        atStop[v] # Null => SimState(vesselData[v]) = atStop[v].sim

\* C5 witness: a vessel stopped in transit has been started again, later.
C5_Witness ==
    \E v \in VesselIds :
        /\ atStop[v] # Null
        /\ atStop[v].sim.position.port = "In Transit"
        /\ v \in DOMAIN trackingIntervals
        /\ activeTracking[v].startTime > vesselData[v].lastUpdate

\* C6: a start of a vessel id the registry lacks returns "Vessel not found"
\* and changes nothing.
C6_UnknownVesselNoMutation ==
    \A o \in Options :
        LET r == startTracking(This, UnknownVesselId, o, now)
        IN  /\ r.result = UnknownVessel
            /\ r.this = This

\* C6 witness: the unknown id is started while known vessels are tracked.
C6_Witness ==
    /\ DOMAIN trackingIntervals = VesselIds
    /\ \E v \in VesselIds : HasMoved(v)
    /\ startTracking(This, UnknownVesselId, [updateInterval |-> 0], now).result = UnknownVessel

\* C7: a stop of a vessel without a handle returns "No active tracking found"
\* and changes nothing.
C7_StopOnUntrackedIsNoOp ==
    \A v \in CallIds \ DOMAIN trackingIntervals :
        LET r == stopTracking(This, v)
        IN  /\ r.result = NotTracking
            /\ r.this = This
            /\ NoteStopped(MapSet(EmptyMap, v, r.result)) = atStop

\* C7 witness: a vessel that was tracked and stopped is stopped again while
\* the other vessel is tracked.
C7_Witness ==
    \E v \in VesselIds :
        /\ atStop[v] # Null
        /\ v \notin DOMAIN trackingIntervals
        /\ trackingIntervals # EmptyMap
        /\ stopTracking(This, v).result = NotTracking

\* C8: startAllTracking returns one result per registry vessel, success for
\* the vessels that had no handle and "Tracking already active" for the others,
\* and leaves every registry vessel with a handle and exactly one live timer.
C8_StartAllCoversRegistry ==
    \A o \in Options :
        LET r == startAllTracking(This, o, now)
        IN  /\ DOMAIN r.result = DOMAIN vesselRoutes
            /\ \A v \in DOMAIN vesselRoutes :
                  /\ r.result[v].success <=> v \notin DOMAIN trackingIntervals
                  /\ v \in DOMAIN trackingIntervals => r.result[v] = AlreadyTracking
                  /\ v \in DOMAIN r.this.trackingIntervals
                  /\ Cardinality(LiveTimersOf(r.this.timers, v)) = 1

\* C8 witness: startAllTracking is called while the first vessel it visits is
\* tracked and a later one is not.
C8_Witness ==
    LET r == startAllTracking(This, [updateInterval |-> 0], now)
    IN  /\ r.result[VesselOrder[1]] = AlreadyTracking
        /\ r.result[VesselOrder[2]].success

\* C9 as stated: stopAllTracking returns an entry for every registry vessel,
\* success for the tracked ones and "No active tracking found" for the others.
C9_StopAllCoversRegistry ==
    LET r == stopAllTracking(This)
    IN  /\ DOMAIN r.result = DOMAIN vesselRoutes
        /\ \A v \in DOMAIN vesselRoutes :
              IF v \in DOMAIN trackingIntervals
              THEN r.result[v].success
              ELSE r.result[v] = NotTracking

\* C9 amended: stopAllTracking returns an entry for exactly the vessels that
\* had a handle when it was called, each a success, and none for the others;
\* afterwards no vessel has a handle.
C9_StopAllCoversTracked ==
    LET r == stopAllTracking(This)
    IN  /\ DOMAIN r.result = DOMAIN trackingIntervals
        /\ \A v \in DOMAIN r.result : r.result[v].success
        /\ r.this.trackingIntervals = EmptyMap

\* C9 witness: stopAllTracking is called while one vessel is tracked and
\* another, stopped earlier, is not: the result has the first and lacks the second.
C9_Witness ==
    \E v, w \in VesselIds :
        /\ v \in DOMAIN trackingIntervals
        /\ atStop[w] # Null /\ w \notin DOMAIN trackingIntervals
        /\ v \in DOMAIN stopAllTracking(This).result
        /\ w \notin DOMAIN stopAllTracking(This).result

\* C10 as stated: what the holder of a status object reads in it is the same
\* after any step as before it.
C10_StatusIsACopy ==
    [][\A v \in VesselIds :
          ReadStatus(getVesselStatus(This, v), vesselData')
              = ReadStatus(getVesselStatus(This, v), vesselData)]_vars

\* C11: a status read never observes a half-updated record.  Whenever a handler
\* such as getVesselStatus can run, no callback has written part of its update:
\* every vessel's simulation state is as a completed tick left it.
C11_ReadsSeeWholeTicks ==
    EventLoopFree =>
        \A i \in 1..Len(running) :
            SimState(vesselData[running[i].vesselId]) = SimState(running[i].before)

\* Reads can run between two ticks of a tracked vessel that has moved while the
\* other vessel has moved as well.
C11_Witness ==
    /\ EventLoopFree
    /\ "VSL-00001" \in DOMAIN trackingIntervals
    /\ vesselData["VSL-00001"].targetWaypoint = 2
    /\ HasMoved("VSL-00006")

\* C12: ticks of one vessel are strictly sequential: in no reachable state have
\* two callbacks of the same vessel begun without having returned.
C12_TicksOfAVesselSequential ==
    \A v \in VesselIds :
        Cardinality({i \in 1..Len(running) : running[i].vesselId = v}) <= 1

\* A later tick of VSL-00001 is part-way, after a tick of VSL-00006.
C12_Witness ==
    /\ Len(running) = 1
    /\ running[1].vesselId = "VSL-00001"
    /\ running[1].pc = "stamp"
    /\ running[1].before.targetWaypoint = 1
    /\ HasMoved("VSL-00006")

\* C13: a vessel's targetWaypoint changes only in a tick of that vessel, and
\* only from i to (i + 1) mod len, so the waypoints are visited in the order
\* 0, 1, 2, 0, 1, ...; routeProgress strictly increases at each waypoint
\* reached, except at the wrap-around, where it returns to 0.
C13_WaypointOrder ==
    [][\A v \in VesselIds :
          LET old == vesselData[v]
              new == vesselData'[v]
              len == Len(vesselRoutes[v].waypoints)
          IN  new.targetWaypoint # old.targetWaypoint =>
                /\ new.targetWaypoint = (old.targetWaypoint + 1) % len
                /\ IF new.targetWaypoint = 0
                   THEN new.routeProgress = 0
                   ELSE new.routeProgress > old.routeProgress
                /\ \E t \in timers, g \in DailyGrowthRates :
                      t.vesselId = v /\ TimerFires(t, g)]_vars

\* VSL-00001 has gone round its route: back at waypoint 0, heading east as on
\* its last leg.
C13_Witness ==
    /\ vesselData["VSL-00001"].targetWaypoint = 0
    /\ vesselData["VSL-00001"].routeProgress = 0
    /\ vesselData["VSL-00001"].course = 90

\* C14: under weak fairness of its tick, a vessel that stays tracked reaches
\* every waypoint index of its route infinitely often (so from any state it
\* eventually reaches its next waypoint): for each index i, again and again
\* the vessel is untracked or has i as its targetWaypoint.
C14_EveryWaypointReachedAgain ==
    \A v \in VesselIds : \A i \in 0..(Len(vesselRoutes[v].waypoints) - 1) :
        []<>(v \notin DOMAIN trackingIntervals \/ vesselData[v].targetWaypoint = i)

\* VSL-00006 is tracked and has reached the last waypoint of its route.
C14_Witness ==
    /\ "VSL-00006" \in DOMAIN trackingIntervals
    /\ vesselData["VSL-00006"].targetWaypoint = 2
    /\ vesselData["VSL-00001"].targetWaypoint = 1

\* C15: foulingPercent is in [0, 100] in every reachable state, so no status
\* query returns a value outside it; no step decreases it, and once it is 100
\* it stays 100, also when the next tick comes a clock step later.
C15_FoulingBoundedMonotone ==
    /\ [](\A v \in VesselIds :
            LET percent == vesselData[v].biofoulingData.foulingPercent
                status == ReadStatus(getVesselStatus(This, v), vesselData)
            IN  /\ percent \in 0..100
                /\ status.biofouling.foulingPercent \in 0..100
                /\ \A g \in DailyGrowthRates, wait \in {0, ClockStepHours} :
                     LET later == updateBiofoulingData(vesselData[v], now + wait, g)
                     IN  /\ later.foulingPercent \in percent..100
                         /\ percent = 100 => later.foulingPercent = 100)
    /\ [][\A v \in VesselIds :
            /\ vesselData'[v].biofoulingData.foulingPercent
                 >= vesselData[v].biofoulingData.foulingPercent
            /\ vesselData[v].biofoulingData.foulingPercent = 100
                 => vesselData'[v].biofoulingData.foulingPercent = 100]_vars

\* VSL-00006 has grown from 69 to the cap and its timer is still live.
C15_Witness ==
    /\ vesselData["VSL-00006"].biofoulingData.foulingPercent = 100
    /\ "VSL-00006" \in DOMAIN trackingIntervals

\* C16: in every reachable state, a freshly initialized vessel included,
\* foulingClass is the thresholds function of foulingPercent: at most 15 clean,
\* at most 40 low, at most 75 medium, above that high.
C16_ClassMatchesPercent ==
    \A v \in VesselIds :
        LET biofouling == vesselData[v].biofoulingData
            percent == biofouling.foulingPercent
        IN  biofouling.foulingClass =
                IF percent <= 15 THEN "clean"
                ELSE IF percent <= 40 THEN "low"
                ELSE IF percent <= 75 THEN "medium"
                ELSE "high"

\* C17: courseDegrees is always in [0, 360): a negative bearing is normalized
\* by adding 360 before it is stored, so no vessel record and no status holds
\* a course outside that range.
C17_CourseNormalized ==
    \A v \in VesselIds :
        /\ vesselData[v].course >= 0 /\ vesselData[v].course < 360
        /\ getVesselStatus(This, v).course >= 0 /\ getVesselStatus(This, v).course < 360

\* C18: the API layer maps UnknownVessel, whether Start or GetVesselStatus
\* raised it, to 404; AlreadyTracking and NotTracking to 400 with the error
\* message as it is; and success to 200 with the vessel's snapshot.
C18_ApiStatusCodes ==
    \A v \in CallIds, o \in Options :
        LET start == startDynamicTracking(This, v, o, now)
            stop == stopDynamicTracking(This, v)
            status == getVesselStatusHandler(This, v)
        IN  /\ v \notin DOMAIN vesselData =>
                /\ start.response.status = 404
                /\ status.status = 404
            /\ v \in DOMAIN trackingIntervals =>
                /\ start.response.status = 400
                /\ start.response.body.message = AlreadyTracking.message
                /\ stop.response.status = 200
                /\ stop.response.body.vessel = getVesselStatus(stop.this, v)
            /\ v \in DOMAIN vesselData /\ v \notin DOMAIN trackingIntervals =>
                /\ stop.response.status = 400
                /\ stop.response.body.message = NotTracking.message
                /\ start.response.status = 200
                /\ start.response.body.vessel = getVesselStatus(start.this, v)
            /\ v \in DOMAIN vesselData =>
                /\ status.status = 200
                /\ status.body.data = getVesselStatus(This, v)

C20_ReadsArePure ==
    /\ getAllVesselStatusesCall(This).this = This
    /\ getTrackingStatsCall(This).this = This
    /\ \A v \in CallIds :
          LET call == getVesselStatusCall(This, v)
          IN  /\ call.this = This
              /\ v \notin DOMAIN vesselData =>
                    /\ call.result = Null
                    /\ getVesselStatusHandler(This, v).status = 404
                    /\ v \notin DOMAIN call.this.vesselData

\* Reads of a running fleet: both vessels are tracked, under way and off their
\* first waypoint, and the unknown id still has no record.
C20_Witness ==
    /\ DOMAIN trackingIntervals = VesselIds
    /\ HasMoved("VSL-00001") /\ HasMoved("VSL-00006")
    /\ getTrackingStatsCall(This).result.activeTracking = 2
    /\ getVesselStatusCall(This, UnknownVesselId).result = Null

\* C21: in every reachable state and for every vessel, the tracking flag of
\* its status (tracking.active, and the status underway rather than stopped)
\* is true exactly when the vessel has a live timer: the timer table, the
\* tracking-metadata table and the status field agree.
C21_TrackingFlagsAgree ==
    \A v \in VesselIds :
        LET status == getVesselStatus(This, v)
            live == LiveTimersOf(timers, v) # {}
        IN  /\ status.tracking.active <=> live
            /\ status.status = "underway" <=> live
            /\ status.status \in {"underway", "stopped"}
            /\ v \in DOMAIN trackingIntervals <=> live
            /\ v \in DOMAIN activeTracking <=> live

\* VSL-00001 is tracked; VSL-00006 was tracked, has moved and is stopped again.
C21_Witness ==
    /\ "VSL-00001" \in DOMAIN trackingIntervals
    /\ "VSL-00006" \notin DOMAIN trackingIntervals
    /\ atStop["VSL-00006"] # Null
    /\ vesselData["VSL-00006"].targetWaypoint = 1

\* C22: a vessel's simulation state (position, target waypoint index, route
\* progress, course, biofouling, last-update timestamp) is changed only by a
\* tick of that vessel: every step that changes it is a firing of one of the
\* vessel's own timers.
C22_OnlyOwnTickChangesState ==
    [][\A v \in VesselIds :
          \/ /\ SimState(vesselData'[v]) = SimState(vesselData[v])
             /\ vesselData'[v].lastUpdate = vesselData[v].lastUpdate
          \/ \E t \in timers, g \in DailyGrowthRates :
                t.vesselId = v /\ TimerFires(t, g)]_vars

\* Both vessels are tracked and time has passed; VSL-00001 has ticked since,
\* VSL-00006 is as it was constructed, but for its status.
C22_Witness ==
    /\ DOMAIN trackingIntervals = VesselIds
    /\ now > 0
    /\ vesselData["VSL-00001"].lastUpdate = now
    /\ vesselData["VSL-00006"] =
          [initialVessel("VSL-00006", vesselData["VSL-00006"].biofoulingData)
              EXCEPT !.status = "underway"]

\* C23: in every reachable state routeProgress of a vessel is
\* targetWaypoint / len(waypoints) * 100 (in whole percent), so it is 0
\* initially and at the wrap-around to index 0 and always in [0, 100); it
\* changes only in a step that changes targetWaypoint.
C23_ProgressFollowsTarget ==
    /\ [](\A v \in VesselIds :
            LET vessel == vesselData[v]
                len == Len(vesselRoutes[v].waypoints)
            IN  /\ vessel.routeProgress = (vessel.targetWaypoint * 100) \div len
                /\ vessel.routeProgress >= 0 /\ vessel.routeProgress < 100
                /\ vessel.targetWaypoint = 0 => vessel.routeProgress = 0
                /\ getVesselStatus(This, v).routeProgress = vessel.routeProgress)
    /\ [][\A v \in VesselIds :
            vesselData'[v].routeProgress # vesselData[v].routeProgress
                => vesselData'[v].targetWaypoint # vesselData[v].targetWaypoint]_vars

\* VSL-00001 is on its last waypoint, two thirds round, and VSL-00006 is back
\* on its first after a round.
C23_Witness ==
    /\ vesselData["VSL-00001"].routeProgress = 66
    /\ vesselData["VSL-00001"].currentPosition.port = "Port of Singapore"
    /\ vesselData["VSL-00006"].routeProgress = 0
    /\ atStop["VSL-00006"] # Null

\* C24: each tick takes exactly one of two branches.  If the distance to the
\* next waypoint is below the step, the position becomes that waypoint, with
\* its port and country, the target index and the route progress advance and
\* the course stays; otherwise the position moves by the step along the
\* bearing and is labelled "In Transit"/"International Waters", the course
\* becomes the bearing and the target index and route progress stay.  Stated
\* of the tick that a firing of the vessel's timer runs in the current state.
C24_TickBranches ==
    \A v \in VesselIds, g \in DailyGrowthRates :
          LET old == vesselData[v]
              new == updateVesselPosition(vesselData, v, now, g)[v]
              waypoints == vesselRoutes[v].waypoints
              next == (old.targetWaypoint + 1) % Len(waypoints)
              waypoint == At(waypoints, next)
              distance == calculateDistance(old.currentPosition.lat, old.currentPosition.lon,
                                            waypoint.lat, waypoint.lon)
              step == speedInDegreesPerUpdate(old)
              bearing == calculateBearing(old.currentPosition.lat, old.currentPosition.lon,
                                          waypoint.lat, waypoint.lon)
              there == movePosition(old.currentPosition.lat, old.currentPosition.lon,
                                    bearing, step)
              arrived == /\ new.currentPosition = waypoint
                         /\ new.targetWaypoint = next
                         /\ new.routeProgress = (next * 100) \div Len(waypoints)
                         /\ new.course = old.course
              inTransit == /\ new.currentPosition =
                                [lat |-> there.lat, lon |-> there.lon,
                                 port |-> "In Transit", country |-> "International Waters"]
                           /\ new.course = bearing
                           /\ new.targetWaypoint = old.targetWaypoint
                           /\ new.routeProgress = old.routeProgress
          IN  IF distance < step THEN arrived /\ ~inTransit ELSE inTransit /\ ~arrived

\* VSL-00001 has moved south-west for one tick and arrived at its second
\* waypoint with the next: it is on the waypoint and keeps the course it had.
C24_Witness ==
    /\ vesselData["VSL-00001"].currentPosition.port = "Transit Point"
    /\ vesselData["VSL-00001"].targetWaypoint = 1
    /\ vesselData["VSL-00001"].course = -135

\* C25: the per-tick step of a vessel is its speed * 0.0002777778 * the
\* interval of its own timer / 3600 s: for a vessel started with an interval
\* override the step comes from the override, not from the 30 s default.
C25_StepUsesOwnInterval ==
    \A t \in timers :
        t.vesselId \in DOMAIN vesselData =>
            speedInDegreesPerUpdate(vesselData[t.vesselId])
                = (vesselData[t.vesselId].speed * t.period) \div 129600

\* C26: a successful Start(v, override) creates a timer whose period, and a
\* handle whose recorded interval, are the override when one is given and the
\* 30 s default otherwise; the recorded interval of a handle, and the period
\* of its timer, never change while the handle lives.
C26_IntervalFromOverride ==
    /\ [](\A v \in VesselIds, o \in Options :
            LET r == startTracking(This, v, o, now)
                expected == IF o.updateInterval # 0 THEN o.updateInterval ELSE 30000
            IN  r.result.success =>
                  /\ r.this.timers \ timers =
                        {[id |-> r.this.trackingIntervals[v], vesselId |-> v,
                          period |-> expected]}
                  /\ r.this.activeTracking[v].updateInterval = expected
                  /\ r.result.vessel.tracking.updateInterval = expected)
    /\ [][\A v \in DOMAIN activeTracking \cap DOMAIN activeTracking' :
            /\ activeTracking'[v].updateInterval = activeTracking[v].updateInterval
            /\ LiveTimersOf(timers', v) = LiveTimersOf(timers, v)]_vars

\* VSL-00001 runs on the override and VSL-00006 on the default, and
\* VSL-00001 has ticked.
C26_Witness ==
    /\ DOMAIN activeTracking = VesselIds
    /\ activeTracking["VSL-00001"].updateInterval = 60000
    /\ activeTracking["VSL-00006"].updateInterval = 30000
    /\ LiveTimersOf(timers, "VSL-00001") # {}
    /\ HasMoved("VSL-00001")

\* C27: a tick fired for a vessel whose route or record cannot be found does
\* not run the updater: updateVesselPosition returns with every vessel record
\* as it was (it returns nothing and writes no other field, so no timer is
\* cancelled and no error raised).  No timer of the tracker is ever created
\* for such a vessel, so the call is stated of an id the tracker does not
\* know, of a tracker that has lost the record of one of its vessels, and of
\* one that holds a record without a route.
C27_TickWithoutRecordSkips ==
    \A g \in DailyGrowthRates :
        /\ tickSkipped(vesselData, UnknownVesselId)
        /\ updateVesselPosition(vesselData, UnknownVesselId, now, g) = vesselData
        /\ \A v \in VesselIds :
              LET lost == MapDelete(vesselData, v)
                  stray == MapSet(vesselData, UnknownVesselId, vesselData[v])
              IN  /\ updateVesselPosition(lost, v, now, g) = lost
                  /\ updateVesselPosition(stray, UnknownVesselId, now, g) = stray

\* A running fleet, with time passed since the last ticks, on which a tick
\* for the unknown id changes nothing while a tick of VSL-00001 would.
C27_Witness ==
    /\ DOMAIN trackingIntervals = VesselIds
    /\ HasMoved("VSL-00001")
    /\ vesselData["VSL-00001"].lastUpdate < now
    /\ \A g \in DailyGrowthRates :
          /\ updateVesselPosition(vesselData, UnknownVesselId, now, g) = vesselData
          /\ updateVesselPosition(vesselData, "VSL-00001", now, g) # vesselData

\* C28: a fault raised while a tick computes is contained: the callback
\* returns instead of propagating it, the vessel's timer and handle stay as
\* they were, so that a live timer goes on firing, and the handles and records
\* of all other vessels are as they were.
C28_FaultContained ==
    /\ [](\A v \in VesselIds : catchTickError(This, v) = This)
    /\ [][\A i \in 1..Len(running) :
            \/ ~TickThrows(i)
            \/ /\ running' = RemoveAt(running, i)
               /\ timers' = timers
               /\ trackingIntervals' = trackingIntervals
               /\ activeTracking' = activeTracking
               /\ \A u \in VesselIds \ {running[i].vesselId} :
                     vesselData'[u] = vesselData[u]
               /\ LiveTimersOf(timers', running[i].vesselId) # {}
           ]_vars

\* Every tick of VSL-00001 so far has thrown after the move, before its
\* biofouling was ever updated, and ticks have kept coming: the vessel is
\* tracked and two legs on, with the fouling class it was constructed with.
C28_Witness ==
    /\ running = <<>>
    /\ "VSL-00001" \in DOMAIN trackingIntervals
    /\ vesselData["VSL-00001"].targetWaypoint = 2
    /\ vesselData["VSL-00001"].biofoulingData.foulingClass = "high"

C30_StopAllLeavesNothingTracked ==
    LET after == stopAllTracking(This).this
    IN  /\ after.timers = {}
        /\ DOMAIN after.trackingIntervals = {}
        /\ DOMAIN after.activeTracking = {}
        /\ getTrackingStats(after).activeTracking = 0
        /\ \A v \in VesselIds : ~getVesselStatus(after, v).tracking.active

\* C30 witness: stopAllTracking is called while both vessels are tracked, the
\* second with an interval of its own and already away from its first waypoint,
\* so that the loop deletes one entry and goes on to the next.
C30_Witness ==
    /\ DOMAIN trackingIntervals = VesselIds
    /\ activeTracking["VSL-00006"].updateInterval = 60000
    /\ activeTracking["VSL-00001"].updateInterval = 30000
    /\ HasMoved("VSL-00006")
    /\ DOMAIN stopAllTracking(This).result = VesselIds

\* C31: in every reachable state the tracking statistics report an active
\* count equal to the number of vessels that have a live timer, between 0 and
\* the total; the total and the available vessel ids are those of the route
\* table, which no step changes.
C31_StatsCountLiveTimers ==
    LET stats == getTrackingStats(This)
        available == {stats.availableVessels[i] : i \in 1..Len(stats.availableVessels)}
    IN  /\ stats.activeTracking =
               Cardinality({v \in VesselIds : LiveTimersOf(timers, v) # {}})
        /\ stats.activeTracking \in 0..stats.totalVessels
        /\ stats.totalVessels = Cardinality(DOMAIN vesselRoutes)
        /\ Len(stats.availableVessels) = stats.totalVessels
        /\ available = DOMAIN vesselRoutes
        /\ DOMAIN vesselRoutes = DOMAIN seaRoutes

\* C31 witness: the statistics are read when the clock has advanced and
\* exactly one of the two vessels has a live timer.
C31_Witness ==
    /\ now > 0
    /\ getTrackingStats(This).activeTracking = 1
    /\ getTrackingStats(This).totalVessels = 2
    /\ LiveTimersOf(timers, "VSL-00006") # {}
    /\ LiveTimersOf(timers, "VSL-00001") = {}

\* C32: daysSinceClean and lastCleanDate of a vessel are the ones drawn when
\* its record was built, and no step (tick, start, stop, start-all, stop-all,
\* read or clock) changes them.
C32_CleaningDataStable ==
    /\ [](\E draw \in generateInitialBiofoulingData : \A v \in VesselIds :
             /\ vesselData[v].biofoulingData.daysSinceClean = draw[v].daysSinceClean
             /\ vesselData[v].biofoulingData.lastCleanDate = draw[v].lastCleanDate)
    /\ [][\A v \in VesselIds :
             /\ vesselData'[v].biofoulingData.daysSinceClean =
                    vesselData[v].biofoulingData.daysSinceClean
             /\ vesselData'[v].biofoulingData.lastCleanDate =
                    vesselData[v].biofoulingData.lastCleanDate]_vars

\* C32 witness: VSL-00006 has been ticked after the clock advanced, so its
\* fouling has grown past the seed, and has been stopped since; its
\* daysSinceClean is still the seed's.
C32_Witness ==
    /\ vesselData["VSL-00006"].biofoulingData.foulingPercent > 69
    /\ vesselData["VSL-00006"].biofoulingData.daysSinceClean = 119
    /\ vesselData["VSL-00006"].status = "stopped"
    /\ "VSL-00006" \notin DOMAIN trackingIntervals

\* C33: the record the constructor builds for a vessel is at waypoints[0] of
\* its route with target waypoint 0, route progress 0, status stopped, no
\* tracking entry and a fouling percentage in [10,70); and a start, whenever
\* it is called, leaves every field of the record but status as it is, so it
\* never seeds the record again.
C33_SeededOnceAtFirstWaypoint ==
    /\ \A draw \in generateInitialBiofoulingData :
          LET data == initializeSEAVesselRoutes(seaRoutes, draw).vesselData
          IN  \A v \in DOMAIN data :
                 /\ data[v].currentPosition = At(seaRoutes[v].waypoints, 0)
                 /\ data[v].targetWaypoint = 0
                 /\ data[v].routeProgress = 0
                 /\ data[v].status = "stopped"
                 /\ data[v].biofoulingData.foulingPercent >= 10
                 /\ data[v].biofoulingData.foulingPercent < 70
    /\ (now = 0 /\ \A v \in VesselIds : vesselData[v].status = "stopped" /\ ~HasMoved(v))
           => \A v \in VesselIds :
                 /\ ~getVesselStatus(This, v).tracking.active
                 /\ vesselData[v].currentPosition = At(vesselRoutes[v].waypoints, 0)
                 /\ vesselData[v].routeProgress = 0
    /\ \A v \in VesselIds, o \in Options :
          LET r == startTracking(This, v, o, now)
          IN  r.this.vesselData =
                 [vesselData EXCEPT
                     ![v].status = IF r.result.success THEN "underway" ELSE @]

\* C33 witness: VSL-00001 has left its first waypoint, has been stopped, the
\* clock has advanced, and a start of it succeeds.
C33_Witness ==
    /\ now > 0
    /\ HasMoved("VSL-00001")
    /\ atStop["VSL-00001"] # Null
    /\ vesselData["VSL-00001"].status = "stopped"
    /\ startTracking(This, "VSL-00001", [updateInterval |-> 0], now).result.success

\* C34 as stated: a vessel that has never been started successfully has no
\* record, and a status query for it returns no snapshot.
C34_NoRecordBeforeFirstStart ==
    \A v \in VesselIds :
        (v \notin DOMAIN trackingIntervals /\ atStop[v] = Null)
            => /\ v \notin DOMAIN vesselData
               /\ getVesselStatus(This, v) = Null

\* C34 amended: every vessel of the route table has a record from construction
\* on, and a status query for a vessel that has never been started returns
\* the snapshot of the record as built: stopped, not tracked, at waypoints[0],
\* target waypoint 0, last update at construction.
C34_RecordFromConstruction ==
    /\ DOMAIN vesselData = DOMAIN vesselRoutes
    /\ \A v \in VesselIds :
          (v \notin DOMAIN trackingIntervals /\ atStop[v] = Null)
              => /\ getVesselStatus(This, v) # Null
                 /\ getVesselStatus(This, v).status = "stopped"
                 /\ ~getVesselStatus(This, v).tracking.active
                 /\ getVesselStatus(This, v).position = At(vesselRoutes[v].waypoints, 0)
                 /\ getVesselStatus(This, v).route.currentWaypoint = 0
                 /\ getVesselStatus(This, v).lastUpdate = 0

\* C34 witness: VSL-00006 has never been started while VSL-00001 is tracked
\* and has ticked after the clock advanced.
C34_Witness ==
    /\ now > 0
    /\ "VSL-00006" \notin DOMAIN trackingIntervals
    /\ atStop["VSL-00006"] = Null
    /\ "VSL-00001" \in DOMAIN trackingIntervals
    /\ vesselData["VSL-00001"].lastUpdate > 0
    /\ getVesselStatus(This, "VSL-00006") # Null

\* C35: in every reachable state, that of a vessel that has not ticked yet
\* included, fuelConsumptionPenalty is (foulingPercent/100)^1.2 * 25 of the
\* vessel's current foulingPercent, and lies in [0,25] (in tenths: 0..250).
C35_PenaltyFollowsPercent ==
    \A v \in VesselIds :
        LET biofouling == vesselData[v].biofoulingData
        IN  /\ biofouling.fuelConsumptionPenalty =
                   (PowSixFifths(biofouling.foulingPercent) * 25) \div 100
            /\ biofouling.fuelConsumptionPenalty \in 0..250

\* C36: lastUpdate of a vessel is written by that vessel's ticks only, with the
\* time of the tick, never by a start or a stop, and it never decreases; so
\* the next tick of a tracked vessel, the first one after a stop and a start
\* included, grows the fouling over the whole time since lastUpdate, the time
\* the vessel was stopped included.
C36_ElapsedSinceLastTick ==
    /\ [](\A v \in VesselIds :
            /\ \A o \in Options :
                  startTracking(This, v, o, now).this.vesselData[v].lastUpdate =
                      vesselData[v].lastUpdate
            /\ stopTracking(This, v).this.vesselData[v].lastUpdate =
                   vesselData[v].lastUpdate
            /\ vesselData[v].lastUpdate <= now
            /\ v \in DOMAIN trackingIntervals =>
                  \A g \in DailyGrowthRates :
                      LET after == updateVesselPosition(vesselData, v, now, g)[v]
                      IN  /\ after.lastUpdate = now
                          /\ after.biofoulingData.foulingPercent =
                                 Min(100, vesselData[v].biofoulingData.foulingPercent
                                          + (g * (now - vesselData[v].lastUpdate))
                                                \div 240))
    /\ [][\A v \in VesselIds :
            \/ vesselData'[v].lastUpdate = vesselData[v].lastUpdate
            \/ /\ vesselData'[v].lastUpdate > vesselData[v].lastUpdate
               /\ vesselData'[v].lastUpdate = now
               /\ LiveTimersOf(timers, v) # {}
               /\ timers' = timers]_vars

\* C36 witness: VSL-00006 ticked once, was stopped, and has been started again
\* after the clock advanced: its next tick grows the fouling over the time
\* since the tick before the stop.
C36_Witness ==
    /\ "VSL-00006" \in DOMAIN trackingIntervals
    /\ atStop["VSL-00006"] # Null
    /\ vesselData["VSL-00006"].targetWaypoint = 1
    /\ activeTracking["VSL-00006"].startTime = now
    /\ vesselData["VSL-00006"].lastUpdate < now
    /\ updateVesselPosition(vesselData, "VSL-00006", now, 25)["VSL-00006"]
           .biofoulingData.foulingPercent
         > vesselData["VSL-00006"].biofoulingData.foulingPercent

\* C37: in every reachable state the position of a vessel either is labelled
\* "In Transit" / "International Waters" or is waypoints[targetWaypoint] of
\* its route, coordinates, port and country; and a position that carries the
\* port name of a waypoint of the route has that waypoint's coordinates.
C37_PositionLabelMatches ==
    \A v \in VesselIds :
        LET position == vesselData[v].currentPosition
            waypoints == vesselRoutes[v].waypoints
        IN  /\ \/ /\ position.port = "In Transit"
                  /\ position.country = "International Waters"
               \/ position = At(waypoints, vesselData[v].targetWaypoint)
            /\ \A i \in 1..Len(waypoints) :
                  position.port = waypoints[i].port
                      => \E j \in 1..Len(waypoints) :
                            /\ waypoints[j].port = position.port
                            /\ position = waypoints[j]

\* C37 witness: after the clock advanced, VSL-00001 is in transit away from
\* its first waypoint while VSL-00006 lies on its second waypoint, which it
\* reached by a tick.
C37_Witness ==
    /\ now > 0
    /\ vesselData["VSL-00001"].currentPosition.port = "In Transit"
    /\ vesselData["VSL-00001"].currentPosition
           # At(vesselRoutes["VSL-00001"].waypoints, vesselData["VSL-00001"].targetWaypoint)
    /\ vesselData["VSL-00006"].targetWaypoint = 1
    /\ vesselData["VSL-00006"].currentPosition.port = "Coastal Transit"

\* C38: the status inside a successful start result is the status of the
\* tracker as the start leaves it: tracking active, status underway, with the
\* interval of the new timer; the status inside a successful stop result is
\* the status as the stop leaves it: tracking inactive, status stopped.
C38_ResultSnapshotIsAfter ==
    \A v \in VesselIds :
        /\ \A o \in Options :
              LET r == startTracking(This, v, o, now)
              IN  r.result.success =>
                     /\ r.result.vessel = getVesselStatus(r.this, v)
                     /\ r.result.vessel.tracking.active
                     /\ r.result.vessel.status = "underway"
                     /\ \A t \in LiveTimersOf(r.this.timers, v) :
                           r.result.vessel.tracking.updateInterval = t.period
                     /\ LiveTimersOf(r.this.timers, v) # {}
        /\ LET r == stopTracking(This, v)
           IN  r.result.success =>
                  /\ r.result.vessel = getVesselStatus(r.this, v)
                  /\ ~r.result.vessel.tracking.active
                  /\ r.result.vessel.status = "stopped"

\* C38 witness: after the clock advanced, VSL-00001 is tracked on an interval
\* of its own, so a stop of it succeeds, and VSL-00006 has been stopped
\* before, so a start of it succeeds.
C38_Witness ==
    /\ now > 0
    /\ stopTracking(This, "VSL-00001").result.success
    /\ activeTracking["VSL-00001"].updateInterval = 60000
    /\ atStop["VSL-00006"] # Null
    /\ startTracking(This, "VSL-00006", [updateInterval |-> 60000], now).result.success
====
